---- MODULE Spec2Model ----
(***************************************************************************)
(* A la carte embedding (src/src/alacarte.py): context-vector accumulation *)
(* over a corpus, the frequency filter, the transform fit, the induced     *)
(* table, the similarity query and save.                                   *)
(*                                                                         *)
(* Encoding.  An atomic token is a string.  A token of the accumulator is  *)
(* a sequence of atoms: the Python str w is <<w>>, the Python tuple        *)
(* (w1, ..., wk) built by ngram is <<w1, ..., wk>>; ngram is only called   *)
(* with n > 1 (line 74), so a sequence of length 1 is always a str.        *)
(* Vectors are tuples of integers of length embedding_dim.  An average     *)
(* v / count is the reduced fraction [num, den].  The least-squares fit    *)
(* and the normalised product are kept symbolic: the transform is the      *)
(* record of its training data, an induced row is the record of the        *)
(* transform and the average it was computed from.  numpy arrays returned  *)
(* by the index are records [ndim, data].  Python indices are 0-based and  *)
(* kept 0-based in the data; sequences are read at index + 1.              *)
(***************************************************************************)
EXTENDS Integers, Sequences, FiniteSets, TLC

\* ------------------------------------------------------------------ bounds
MaxSentences == 2
MaxNgram == 3
MaxTopn == 2

\* ----------------------------------------------------- injected collaborators
\* The pretrained embedding handed to the constructor (self.w2v).
w2v ==
  [ the |-> <<1, 0, 0, 0>>, cat |-> <<0, 1, 0, 0>>, dog |-> <<0, 0, 1, 0>>,
    sat |-> <<0, 0, 0, 1>>, on  |-> <<1, 1, 0, 0>>, mat |-> <<0, 1, 1, 0>>,
    rug |-> <<0, 0, 1, 1>> ]

\* self.w2v.vector_size (line 43).
embedding_dim == Len(w2v.the)

w2v_vocab == DOMAIN w2v

\* The tokenizer handed to the constructor (self.tokenize), here whitespace
\* splitting, as the table of its values on the sentences of the model.
tokenize ==
  ("the cat sat on the mat" :> <<"the", "cat", "sat", "on", "the", "mat">>) @@
  ("the dog sat on the rug" :> <<"the", "dog", "sat", "on", "the", "rug">>) @@
  ("a zog sat on" :> <<"a", "zog", "sat", "on">>) @@
  ("zog sat" :> <<"zog", "sat">>)

SentencePool == DOMAIN tokenize

Corpora == UNION { [1..n -> SentencePool] : n \in 0..MaxSentences }

TargetWordLists == { {}, { <<"zog">>, <<"cat", "sat">> } }

RECURSIVE DistinctSeqs(_, _)
DistinctSeqs(S, n) ==
  IF n = 0 THEN { <<>> }
  ELSE { Append(q, x) : q \in DistinctSeqs(S, n - 1), x \in S }

NgramLists ==
  { q \in DistinctSeqs(1..MaxNgram, 1) \cup DistinctSeqs(1..MaxNgram, 2) :
      \A i, j \in 1..Len(q) : i # j => q[i] # q[j] }

WindowSizes == {1, 2}
MinCounts == {0, 1, 2}

\* ------------------------------------------------------------ vector helpers
Zeros == [i \in 1..embedding_dim |-> 0]

VAdd(u, v) == [i \in 1..embedding_dim |-> u[i] + v[i]]

Abs(x) == IF x < 0 THEN -x ELSE x

RECURSIVE GCD(_, _)
GCD(a, b) == IF b = 0 THEN Abs(a) ELSE GCD(b, a % b)

RECURSIVE VecGCD(_, _, _)
VecGCD(v, i, g) == IF i > Len(v) THEN g ELSE VecGCD(v, i + 1, GCD(g, Abs(v[i])))

\* v / self.target_counts[k] (lines 109, 111): count >= 1 for every key of c2v.
Avg(v, count) ==
  LET g == VecGCD(v, 1, count)
  IN  [num |-> [i \in 1..Len(v) |-> v[i] \div g], den |-> count \div g]

Range(q) == { q[i] : i \in 1..Len(q) }

\* ------------------------------------------------------------ pure functions
\* window_without_center (lines 20-33): the pairs the generator yields, and
\* whether reading seq[...] raised IndexError before the loop ended.
RECURSIVE window_loop(_, _, _, _)
window_loop(seq, n, start, yielded) ==
  LET center == start + n
      end == center + n + 1
  IN  IF end - 1 >= Len(seq) \/ center >= Len(seq)
        THEN [yields |-> yielded, raised |-> TRUE]
        ELSE LET context == [j \in 1..(2 * n) |->
                               IF j <= n THEN seq[start + j] ELSE seq[start + j + 1]]
                 out == Append(yielded, <<seq[center + 1], context>>)
             IN  IF end >= Len(seq)
                   THEN [yields |-> out, raised |-> FALSE]
                   ELSE window_loop(seq, n, start + 1, out)

\* The loop with the exit test "end > seq_len" instead of "end >= seq_len".
RECURSIVE window_loop_late(_, _, _, _)
window_loop_late(seq, n, start, yielded) ==
  LET center == start + n
      end == center + n + 1
  IN  IF end - 1 >= Len(seq) \/ center >= Len(seq)
        THEN [yields |-> yielded, raised |-> TRUE]
        ELSE LET context == [j \in 1..(2 * n) |->
                               IF j <= n THEN seq[start + j] ELSE seq[start + j + 1]]
                 out == Append(yielded, <<seq[center + 1], context>>)
             IN  IF end > Len(seq)
                   THEN [yields |-> out, raised |-> FALSE]
                   ELSE window_loop_late(seq, n, start + 1, out)

window_without_center_late_break(seq, n) == window_loop_late(seq, n, 0, <<>>)
window_without_center(seq, n) == window_loop(seq, n, 0, <<>>)

\* ngram (lines 36-37): zip of the n suffixes, the tuples of n adjacent words.
ngram(words, n) ==
  IF Len(words) < n THEN <<>>
  ELSE [j \in 1..(Len(words) - n + 1) |-> [i \in 1..n |-> words[j + i - 1]]]

\* _get_embedding_vec (lines 58-71).
RECURSIVE sum_known(_, _, _)
sum_known(token, i, vec) ==
  IF i > Len(token) THEN vec
  ELSE sum_known(token, i + 1,
                 IF token[i] \in w2v_vocab THEN VAdd(vec, w2v[token[i]]) ELSE vec)

get_embedding_vec(token) ==
  IF Len(token) = 1
    THEN IF token[1] \in w2v_vocab THEN w2v[token[1]] ELSE Zeros
    ELSE sum_known(token, 1, Zeros)

\* k in self.w2v.vocab for a key of c2v: a tuple is never a key of the table.
in_w2v(token) == Len(token) = 1 /\ token[1] \in w2v_vocab

RECURSIVE context_vector(_, _, _)
context_vector(context, i, vec) ==
  IF i > Len(context) THEN vec
  ELSE context_vector(context, i + 1, VAdd(vec, get_embedding_vec(context[i])))

\* The accumulator: self.vocab, self.c2v (keys in insertion order and the
\* sums), self.target_counts.
EmptyAcc(vocab0) == [vocab |-> vocab0, keys |-> <<>>, sum |-> <<>>, cnt |-> <<>>]

\* self.c2v[target_token] += context_vector (lines 88-91).
c2v_update_overwrite(sum, target, cv) == (target :> cv) @@ sum
c2v_update(sum, target, cv) ==
  IF target \in DOMAIN sum
    THEN [sum EXCEPT ![target] = VAdd(@, cv)]
    ELSE (target :> cv) @@ sum

\* Body of the loop of _make_context_vectors for one window (lines 80-93).
add_window(acc, twl, target, context) ==
  IF twl # {} /\ target \notin acc.vocab
    THEN acc
    ELSE [vocab |-> acc.vocab \cup {target},
          keys  |-> IF target \in DOMAIN acc.sum THEN acc.keys
                    ELSE Append(acc.keys, target),
          sum   |-> c2v_update(acc.sum, target, context_vector(context, 1, Zeros)),
          cnt   |-> IF target \in DOMAIN acc.cnt
                      THEN [acc.cnt EXCEPT ![target] = @ + 1]
                      ELSE (target :> 1) @@ acc.cnt]

RECURSIVE add_windows(_, _, _, _)
add_windows(acc, twl, ys, i) ==
  IF i > Len(ys) THEN acc
  ELSE add_windows(add_window(acc, twl, ys[i][1], ys[i][2]), twl, ys, i + 1)

\* _make_context_vectors (lines 73-93): the accumulator after the call and
\* whether the call raised IndexError.
make_context_vectors(acc, twl, ws, tokens, n) ==
  LET token_list == IF n > 1 THEN ngram(tokens, n)
                    ELSE [i \in 1..Len(tokens) |-> <<tokens[i]>>]
      w == window_without_center(token_list, ws)
  IN  [acc |-> add_windows(acc, twl, w.yields, 1), raised |-> w.raised]

\* for n in self.ngram (lines 100-101), stopping at the first exception.
RECURSIVE ngram_loop(_, _, _, _, _, _)
ngram_loop(acc, twl, ws, tokens, orders, j) ==
  IF j > Len(orders) THEN [acc |-> acc, raised |-> FALSE]
  ELSE LET r == make_context_vectors(acc, twl, ws, tokens, orders[j])
       IN  IF r.raised THEN r
           ELSE ngram_loop(r.acc, twl, ws, tokens, orders, j + 1)

\* if len(tokens) > self.window_size * 2 + 1 (line 99).
length_check_off_by_one(tokens, ws) == Len(tokens) > ws * 2 + 2
length_check(tokens, ws) == Len(tokens) > ws * 2 + 1

\* Body of the sentence loop of build (lines 98-101).
build_sentence(acc, twl, ws, orders, sentence) ==
  LET tokens == tokenize[sentence]
  IN  IF length_check(tokens, ws)
        THEN ngram_loop(acc, twl, ws, tokens, orders, 1)
        ELSE [acc |-> acc, raised |-> FALSE]

\* The whole sentence loop (lines 97-101) over a corpus.
RECURSIVE accumulate(_, _, _, _, _, _)
accumulate(acc, twl, ws, orders, corpus, i) ==
  IF i > Len(corpus) THEN [acc |-> acc, raised |-> FALSE]
  ELSE LET r == build_sentence(acc, twl, ws, orders, corpus[i])
       IN  IF r.raised THEN r
           ELSE accumulate(r.acc, twl, ws, orders, corpus, i + 1)

\* remove low frequency token (lines 104-106): the vocabulary after the loop.
remove_low_frequency_le(vocab, cnt, mc) ==
  vocab \ { word \in DOMAIN cnt : cnt[word] <= mc }
remove_low_frequency(vocab, cnt, mc) ==
  vocab \ { word \in DOMAIN cnt : cnt[word] < mc }

\* [... for k, v in self.c2v.items() if k in <vocab>] (lines 109-112, 117).
in_vocab_ignored(k, vocab) == TRUE
in_vocab(k, vocab) == k \in vocab

x_all_filter_w2v(k, vocab) == in_w2v(k)
x_all_filter(k, vocab) == in_vocab(k, vocab)

averages(keys, sum, cnt) == [i \in 1..Len(keys) |-> Avg(sum[keys[i]], cnt[keys[i]])]

\* LinearRegression(fit_intercept=False).fit(X, y).coef_ (line 113), symbolic.
fit(X, y) == [X |-> X, y |-> y]

\* One row of normalize(X_all.dot(self.A.T)) (line 116), symbolic.
induce(A, x) == [A |-> A, x |-> x]

\* "".join(word) (lines 132, 141).
RECURSIVE join(_, _)
join(token, i) == IF i > Len(token) THEN "" ELSE token[i] \o join(token, i + 1)

Label(token) == join(token, 1)

\* ------------------------------------------------------------------- state
VARIABLES
  sentences,         \* the corpus handed to build
  target_word_list,  \* self.target_word_list
  ngram_list,        \* self.ngram
  window_size,       \* self.window_size
  min_count,         \* self.min_count
  vocab,             \* self.vocab
  c2v_keys,          \* keys of self.c2v, in insertion order
  c2v,               \* self.c2v
  target_counts,     \* self.target_counts
  X_all,             \* local X_all of build
  A,                 \* self.A
  alacarte,          \* self.alacarte
  alacarte_vocab,    \* self.alacarte_vocab
  flann,             \* the matrix self.flann indexes
  pc,                \* position in build
  si,                \* index of the next sentence of the loop
  err,               \* the exception that ended build
  alc,               \* what the global name alc is bound to
  query,             \* the last most_similar call and what it returned
  file               \* what the last save wrote, and the exception it raised

cfg_vars == <<sentences, target_word_list, ngram_list, window_size, min_count>>
acc_vars == <<c2v_keys, c2v, target_counts>>
out_vars == <<X_all, A, alacarte, alacarte_vocab, flann>>
use_vars == <<alc, query, file>>
vars == <<cfg_vars, vocab, acc_vars, out_vars, pc, si, err, use_vars>>

Acc == [vocab |-> vocab, keys |-> c2v_keys, sum |-> c2v, cnt |-> target_counts]

NoQuery == [word |-> <<>>, topn |-> 0, result |-> [ndim |-> 1, data |-> <<>>],
            dists |-> [ndim |-> 1, data |-> <<>>], out |-> <<>>, err |-> "none",
            called |-> FALSE]
NoFile == [lines |-> <<>>, err |-> "none", written |-> FALSE]

\* __init__ (lines 41-56).
Constructed ==
  /\ vocab = { <<w>> : w \in w2v_vocab } \cup target_word_list
  /\ c2v_keys = <<>> /\ c2v = <<>> /\ target_counts = <<>>
  /\ X_all = <<>> /\ A = <<>> /\ alacarte = <<>> /\ alacarte_vocab = <<>>
  /\ flann = <<>>
  /\ pc = "accumulate" /\ si = 1 /\ err = "none"
  /\ query = NoQuery /\ file = NoFile

Init ==
  /\ sentences \in Corpora
  /\ target_word_list \in TargetWordLists
  /\ ngram_list \in NgramLists
  /\ window_size \in WindowSizes
  /\ min_count \in MinCounts
  /\ alc = "unbound"
  /\ Constructed

\* One turn of the sentence loop of build (lines 97-101).
BuildSentence ==
  /\ pc = "accumulate" /\ si <= Len(sentences)
  /\ LET r == build_sentence(Acc, target_word_list, window_size, ngram_list,
                             sentences[si])
     IN  /\ vocab' = r.acc.vocab
         /\ c2v_keys' = r.acc.keys
         /\ c2v' = r.acc.sum
         /\ target_counts' = r.acc.cnt
         /\ pc' = IF r.raised THEN "error" ELSE "accumulate"
         /\ err' = IF r.raised THEN "IndexError" ELSE err
         /\ si' = IF r.raised THEN si ELSE si + 1
  /\ UNCHANGED <<cfg_vars, out_vars, use_vars>>

\* remove low frequency token (lines 103-106).
RemoveLowFrequency ==
  /\ pc = "accumulate" /\ si > Len(sentences)
  /\ vocab' = remove_low_frequency(vocab, target_counts, min_count)
  /\ pc' = "fit"
  /\ UNCHANGED <<cfg_vars, acc_vars, out_vars, si, err, use_vars>>

select_keys(keys, voc) == SelectSeq(keys, LAMBDA k : x_all_filter(k, voc))

\* compute context-to-feature transform (lines 108-113).  X is a list of
\* rows; with no row np.array gives a 1-d array and fit raises ValueError.
ComputeTransform ==
  /\ pc = "fit"
  /\ LET train == SelectSeq(c2v_keys, in_w2v)
         X == averages(train, c2v, target_counts)
         y == [i \in 1..Len(train) |-> w2v[train[i][1]]]
     IN  /\ X_all' = averages(select_keys(c2v_keys, vocab), c2v, target_counts)
         /\ IF Len(X) = 0
              THEN A' = A /\ pc' = "error" /\ err' = "ValueError"
              ELSE A' = fit(X, y) /\ pc' = "induce" /\ err' = err
  /\ UNCHANGED <<cfg_vars, vocab, acc_vars, alacarte, alacarte_vocab, flann, si,
                 use_vars>>

\* set a la carte embedding (lines 115-117).  With no row X_all is a 1-d
\* array of length 0 and dot raises ValueError.
SetAlacarte ==
  /\ pc = "induce"
  /\ IF Len(X_all) = 0
       THEN /\ pc' = "error" /\ err' = "ValueError"
            /\ UNCHANGED <<alacarte, alacarte_vocab>>
       ELSE /\ alacarte' = [i \in 1..Len(X_all) |-> induce(A, X_all[i])]
            /\ alacarte_vocab' = SelectSeq(c2v_keys, LAMBDA v : in_vocab(v, vocab))
            /\ pc' = "index" /\ err' = err
  /\ UNCHANGED <<cfg_vars, vocab, acc_vars, X_all, A, flann, si, use_vars>>

\* make index for similarity search (line 120).
BuildIndex ==
  /\ pc = "index"
  /\ flann' = alacarte
  /\ pc' = "built"
  /\ UNCHANGED <<cfg_vars, vocab, acc_vars, X_all, A, alacarte, alacarte_vocab, si,
                 err, use_vars>>

\* ------------------------------------------------------------ most_similar
DistValues == {0, 1}

Min(a, b) == IF a <= b THEN a ELSE b

\* The first index of word in a list (list.index), 0-based.
index_of(list, word) == (CHOOSE i \in 1..Len(list) :
                           list[i] = word /\ \A j \in 1..(i - 1) : list[j] # word) - 1

\* arr[0] on a numpy array.
index0(arr) == [ndim |-> arr.ndim - 1, data |-> arr.data[1]]

\* What nn_index returns for one query point (line 124): an array of shape
\* (1, k), reshaped to (1,) when k = 1.
nn_shape(flat, k) ==
  IF k = 1 THEN [ndim |-> 1, data |-> flat] ELSE [ndim |-> 2, data |-> <<flat>>]

\* if topn != 1: result = result[0] (lines 126-128).
unwrap_always(arr, topn) == index0(arr)
unwrap(arr, topn) == IF topn # 1 THEN index0(arr) ELSE arr

\* The loop of most_similar (lines 130-135); iterating a 0-d array, or
\* indexing the list with a row, raises TypeError.
most_similar_output(result, dists, topn, labels) ==
  LET r == unwrap(result, topn)
      d == unwrap(dists, topn)
  IN  IF r.ndim # 1
        THEN [out |-> <<>>, err |-> "TypeError"]
        ELSE [out |-> [i \in 1..Len(r.data) |->
                         <<Label(labels[r.data[i] + 1]),
                           IF d.ndim = 0 THEN d.data ELSE d.data[i]>>],
              err |-> "none"]

\* The answers the approximate index may give for k neighbours among N rows:
\* k distinct 0-based positions, nearest first.
Neighbours(N, k) ==
  { q \in [1..k -> 0..(N - 1)] : \A i, j \in 1..k : i # j => q[i] # q[j] }
Distances(k) ==
  { q \in [1..k -> DistValues] : \A i \in 1..(k - 1) : q[i] <= q[i + 1] }

UnknownWord == <<"qux">>

\* most_similar (lines 122-135) on the built instance.  No call changes the
\* instance, so one call per behaviour shows them all.
MostSimilar ==
  /\ pc = "built" /\ ~query.called /\ ~file.written
  /\ \E word \in Range(alacarte_vocab) \cup {UnknownWord},
        topn \in 1..Min(MaxTopn, Len(alacarte_vocab)) :
       IF word \notin Range(alacarte_vocab)
         THEN query' = [NoQuery EXCEPT !.word = word, !.topn = topn,
                                       !.err = "ValueError", !.called = TRUE]
         ELSE \E nbrs \in Neighbours(Len(flann), topn), ds \in Distances(topn) :
                LET word_vec == alacarte[index_of(alacarte_vocab, word) + 1]
                    result == nn_shape(nbrs, topn)
                    dists == nn_shape(ds, topn)
                    o == most_similar_output(result, dists, topn, alacarte_vocab)
                IN  query' = [word |-> word, topn |-> topn, result |-> result,
                              dists |-> dists, out |-> o.out, err |-> o.err,
                              called |-> TRUE]
  /\ UNCHANGED <<cfg_vars, vocab, acc_vars, out_vars, pc, si, err, alc, file>>

\* -------------------------------------------------------------------- save
\* f"{len(self.alacarte_vocab)} {self.embedding_dim}" (line 139).
header(n, dim) == ToString(n) \o " " \o ToString(dim)

\* [str(np.round(s, 6)) for s in arr.tolist()] (line 141), on a symbolic row.
round6(arr) == [round6 |-> arr]

\* " ".join(["".join(word)] + [...]) (line 141).
line(arr, word) == <<Label(word), round6(arr)>>

\* zip(alacarte, alacarte_vocab) (line 140).
zip_lines(rows, words) ==
  [i \in 1..Min(Len(rows), Len(words)) |-> line(rows[i], words[i])]

\* Another built instance of the program: built from the corpus
\* ["a zog sat on"] with the default settings and min_count 1.
OtherInstance ==
  LET acc == accumulate(EmptyAcc({ <<w>> : w \in w2v_vocab }), {}, 1, <<1>>,
                        <<"a zog sat on">>, 1).acc
      voc == remove_low_frequency(acc.vocab, acc.cnt, 1)
      train == SelectSeq(acc.keys, in_w2v)
      tr == fit(averages(train, acc.sum, acc.cnt),
                [i \in 1..Len(train) |-> w2v[train[i][1]]])
      xs == averages(select_keys(acc.keys, voc), acc.sum, acc.cnt)
  IN  [alacarte |-> [i \in 1..Len(xs) |-> induce(tr, xs[i])],
       alacarte_vocab |-> SelectSeq(acc.keys, LAMBDA v : in_vocab(v, voc))]

Self == [alacarte |-> alacarte, alacarte_vocab |-> alacarte_vocab]

\* The instance the global name alc refers to (line 140).
alc_instance == IF alc = "self" THEN Self ELSE OtherInstance

\* save (lines 137-141): the header is written, then the global name alc is
\* looked up; unbound, it raises NameError after the header.  No call
\* changes the instance, so one call per behaviour shows them all.
Save ==
  /\ pc = "built" /\ ~query.called /\ ~file.written
  /\ file' = IF alc = "unbound"
               THEN [lines |-> <<header(Len(alacarte_vocab), embedding_dim)>>,
                     err |-> "NameError", written |-> TRUE]
               ELSE [lines |-> <<header(Len(alacarte_vocab), embedding_dim)>> \o
                               zip_lines(alc_instance.alacarte,
                                         alc_instance.alacarte_vocab),
                     err |-> "none", written |-> TRUE]
  /\ UNCHANGED <<cfg_vars, vocab, acc_vars, out_vars, pc, si, err, alc, query>>

Next ==
  \/ BuildSentence
  \/ RemoveLowFrequency
  \/ ComputeTransform
  \/ SetAlacarte
  \/ BuildIndex

Spec == Init /\ [][Next]_vars

\* The built instance in use: queries and saves, with the global name alc
\* unbound, bound to this instance or bound to another one.
InitUse ==
  /\ sentences \in Corpora
  /\ target_word_list = {}
  /\ ngram_list \in { <<1>>, <<2>> }
  /\ window_size = 1
  /\ min_count = 1
  /\ alc \in {"unbound", "self", "other"}
  /\ Constructed

NextUse ==
  \/ BuildSentence
  \/ RemoveLowFrequency
  \/ ComputeTransform
  \/ SetAlacarte
  \/ BuildIndex
  \/ MostSimilar
  \/ Save

SpecUse == InitUse /\ [][NextUse]_vars

\* ----------------------------------------------------------- shared notions
Count(t) == IF t \in DOMAIN target_counts THEN target_counts[t] ELSE 0

Max(a, b) == IF a >= b THEN a ELSE b

\* The sentence loop of build ran to its end.
AtAccumulationEnd == pc = "accumulate" /\ si > Len(sentences)
AccumulationDone == AtAccumulationEnd \/ pc \in {"fit", "induce", "index", "built"}
                      \/ (pc = "error" /\ err = "ValueError")
Induced == pc \in {"index", "built"}

\* The sequence windowed for sentence i and the j-th configured order.
TokenList(i, j) ==
  LET tokens == tokenize[sentences[i]]
      k == ngram_list[j]
  IN  IF k > 1 THEN ngram(tokens, k) ELSE [x \in 1..Len(tokens) |-> <<tokens[x]>>]

PassesLengthCheck(i) == Len(tokenize[sentences[i]]) > 2 * window_size + 1

Universe ==
  DOMAIN c2v \cup DOMAIN target_counts \cup
  UNION { Range(TokenList(i, j)) : i \in 1..Len(sentences), j \in 1..Len(ngram_list) }

Eligible(t) == target_word_list = {} \/ in_w2v(t) \/ t \in target_word_list

\* 0-based positions p, n <= p <= L - 1 - n, where t is the center.
CenterPositions(t) ==
  UNION { { <<i, j, p>> : p \in { x \in window_size..(Len(TokenList(i, j)) - 1 - window_size) :
                                    TokenList(i, j)[x + 1] = t } } :
          i \in { x \in 1..Len(sentences) : PassesLengthCheck(x) },
          j \in 1..Len(ngram_list) }

ExpectedCount(t) == IF Eligible(t) THEN Cardinality(CenterPositions(t)) ELSE 0

TrainingTokens == { t \in DOMAIN c2v : in_w2v(t) }

\* ------------------------------------------------------------------ claims
\* C1: after the sentence loop of build, target_counts[t] is the number of
\* eligible center positions of t (n <= p <= L-1-n in the sentences passing
\* the length check, over all configured orders), and c2v has an entry for t
\* exactly when that number is not zero.
C1_CountsAreEligibleCenters ==
  AccumulationDone =>
    \A t \in Universe :
      /\ Count(t) = ExpectedCount(t)
      /\ (t \in DOMAIN c2v) <=> (ExpectedCount(t) # 0)

C1_Witness ==
  /\ AccumulationDone /\ target_word_list # {} /\ Len(ngram_list) = 2
  /\ \E t \in Universe : Count(t) >= 2
  /\ \E t \in Universe : Len(t) = 2 /\ Count(t) = 1
  /\ \E t \in Universe : ~Eligible(t) /\ CenterPositions(t) # {} /\ Count(t) = 0

\* C2 as stated: in the two-sentence scenario build succeeds and "the" has
\* occurrence count 4.
Scenario ==
  /\ sentences = <<"the cat sat on the mat", "the dog sat on the rug">>
  /\ window_size = 1 /\ ngram_list = <<1>> /\ min_count = 1
  /\ target_word_list = {}

C2_TheCountedFourTimes == (Scenario /\ pc = "built") => Count(<<"the">>) = 4

\* C2 amended: in the scenario build succeeds and "the" has occurrence
\* count 2: its first position in each sentence is never a center.
C2_TheCountedTwice ==
  Scenario => /\ pc # "error"
              /\ AccumulationDone => Count(<<"the">>) = 2

C2_Witness == Scenario /\ pc = "built" /\ Count(<<"the">>) = 2

\* C3: build never aborts at a sentence one of whose windowed sequences is
\* too short for a full window; it skips the sequence and goes on.
TooShort(i, j) == Len(TokenList(i, j)) < 2 * window_size + 1

C3_ShortSequenceSkipped ==
  \A i \in 1..Len(sentences) :
    (\E j \in 1..Len(ngram_list) : TooShort(i, j)) => ~(pc = "error" /\ si = i)

\* C4: with fewer than D+1 (or fewer than 2) training pairs build fails with
\* InsufficientDataError and there is no transform, table or index.
C4_InsufficientDataFails ==
  (AccumulationDone /\ Cardinality(TrainingTokens) < Max(embedding_dim + 1, 2)) =>
    /\ pc \notin {"induce", "index", "built"}
    /\ A = <<>> /\ alacarte = <<>> /\ flann = <<>>

\* C5: after induction every token with a nonzero count that survived the
\* minimum-count filter is in alacarte_vocab exactly once, and row i of
\* alacarte is the vector induced from the average of alacarte_vocab[i].
C5_TableCoversSurvivorsInOrder ==
  Induced =>
    /\ Range(alacarte_vocab) = { t \in Universe : Count(t) > 0 /\ Count(t) >= min_count }
    /\ \A i, j \in 1..Len(alacarte_vocab) :
         alacarte_vocab[i] = alacarte_vocab[j] => i = j
    /\ Len(alacarte) = Len(alacarte_vocab)
    /\ \A i \in 1..Len(alacarte_vocab) :
         alacarte[i] = induce(A, Avg(c2v[alacarte_vocab[i]], Count(alacarte_vocab[i])))

C5_Witness ==
  /\ Induced /\ Len(alacarte_vocab) >= 3 /\ min_count = 2
  /\ \E t \in DOMAIN c2v : t \notin Range(alacarte_vocab)
  /\ \E t \in Range(alacarte_vocab) : ~in_w2v(t)
  /\ \E i, j \in 1..Len(alacarte) : alacarte[i] # alacarte[j]

PermSeq(q, p) == [i \in 1..Len(q) |-> q[p[i]]]

C7_OrderIndependent ==
  AtAccumulationEnd =>
    \A p \in Permutations(1..Len(sentences)), o \in Permutations(1..Len(ngram_list)) :
      LET vocab0 == { <<w>> : w \in w2v_vocab } \cup target_word_list
          r == accumulate(EmptyAcc(vocab0), target_word_list, window_size,
                          PermSeq(ngram_list, o), PermSeq(sentences, p), 1)
      IN  /\ ~r.raised
          /\ r.acc.sum = c2v
          /\ r.acc.cnt = target_counts
          /\ r.acc.vocab = vocab

C7_Witness ==
  /\ AtAccumulationEnd /\ Len(sentences) = 2 /\ sentences[1] # sentences[2]
  /\ Len(ngram_list) = 2 /\ target_word_list # {}
  /\ \E t \in DOMAIN c2v : target_counts[t] >= 2
  /\ c2v_keys # accumulate(EmptyAcc({ <<w>> : w \in w2v_vocab } \cup target_word_list),
                           target_word_list, window_size, ngram_list,
                           <<sentences[2], sentences[1]>>, 1).acc.keys

\* C8 as stated: the tokens the transform is fit from are all tokens of the
\* induced table.
C8_TrainingSubsetOfTable == Induced => TrainingTokens \subseteq Range(alacarte_vocab)

\* C8 amended: the transform is fit from every accumulated token of the
\* pretrained table, and such a token is in the induced table exactly when
\* its count is at least min_count (so all of them are when min_count <= 1).
C8_TrainingInTableUnlessFiltered ==
  Induced =>
    /\ Len(A.X) = Cardinality(TrainingTokens) /\ Len(A.y) = Len(A.X)
    /\ \A t \in TrainingTokens :
         (target_counts[t] >= min_count) <=> (t \in Range(alacarte_vocab))
    /\ min_count <= 1 => TrainingTokens \subseteq Range(alacarte_vocab)

C8_Witness ==
  /\ Induced /\ min_count = 2
  /\ \E t \in TrainingTokens : t \notin Range(alacarte_vocab)
  /\ \E t \in TrainingTokens : t \in Range(alacarte_vocab)

\* C9: most_similar(token, topn = k) on a token of the table, 1 <= k <= size
\* of the table, returns exactly k (label, distance) pairs in the order of
\* the index's answer, nearest first, each label that of the token at the
\* returned position; for k = 1 too, where the index's answer has one
\* dimension less.
FlatAnswer(arr) == IF arr.ndim = 2 THEN arr.data[1] ELSE arr.data

C9_QueryShape ==
  (query.called /\ query.word \in Range(alacarte_vocab)) =>
    /\ query.err = "none"
    /\ Len(query.out) = query.topn
    /\ \A i \in 1..query.topn :
         /\ Len(query.out[i]) = 2
         /\ query.out[i][1] = Label(alacarte_vocab[FlatAnswer(query.result)[i] + 1])
         /\ query.out[i][2] = FlatAnswer(query.dists)[i]
    /\ \A i \in 1..(query.topn - 1) : query.out[i][2] <= query.out[i + 1][2]

C9_Witness ==
  /\ query.called /\ query.topn = 1 /\ query.result.ndim = 1
  /\ Len(query.out) = 1 /\ Len(alacarte_vocab) >= 2
  /\ query.out[1][1] # Label(query.word)

C9_WitnessMany ==
  /\ query.called /\ query.topn = 2 /\ query.result.ndim = 2
  /\ Len(query.out) = 2 /\ query.out[1][2] < query.out[2][2]

\* C10: save on a built instance writes the header and then one line per
\* token of that same instance's table, in table order, made of that token's
\* label and that instance's own vector, whatever the global names are.
C10_SaveWritesOwnTable ==
  file.written =>
    /\ file.err = "none"
    /\ Len(file.lines) = 1 + Len(alacarte_vocab)
    /\ file.lines[1] = header(Len(alacarte_vocab), embedding_dim)
    /\ \A i \in 1..Len(alacarte_vocab) :
         file.lines[i + 1] = <<Label(alacarte_vocab[i]), round6(alacarte[i])>>

====
